---- MODULE Spec2Model ----
(***************************************************************************)
(* FemaleFoundersFeed aggregator (src/aggregator/aggregator.py).           *)
(*                                                                         *)
(* A text is a sequence of one-character strings.  Time is counted in      *)
(* whole minutes since the epoch (minute 0 is 1970-01-01T00:00:00Z).       *)
(* A keyword term is a regular expression of one of two shapes: a literal  *)
(* (lit) or a literal followed by the end anchor (lit$).                   *)
(***************************************************************************)
EXTENDS Integers, Sequences, FiniteSets, TLC

(***************************************************************************)
(* Bounds of the model.                                                    *)
(***************************************************************************)
\* feed entries and press pages read in one run
MaxReads == 3
\* minutes the run may take
MaxDrift == 1

(***************************************************************************)
(* Program constants.                                                      *)
(***************************************************************************)
MinutesPerDay == 1440
MinTextLen == 6
Epoch == 0

\* The instant at which main() computes the cutoff (line 240).
StartMinute == 2 * MinutesPerDay + 120

(***************************************************************************)
(* Texts.                                                                  *)
(***************************************************************************)
IsSpace(c) == c \in {" ", "\n"}

Lower(c) ==
  CASE c = "W" -> "w"
    [] c = "S" -> "s"
    [] c = "B" -> "b"
    [] c = "X" -> "x"
    [] OTHER -> c

RECURSIVE LStrip(_)
LStrip(t) ==
  IF t # <<>> /\ IsSpace(Head(t)) THEN LStrip(Tail(t)) ELSE t

RECURSIVE RStrip(_)
RStrip(t) ==
  IF t # <<>> /\ IsSpace(t[Len(t)]) THEN RStrip(SubSeq(t, 1, Len(t) - 1)) ELSE t

\* str.strip()
Strip(t) == RStrip(LStrip(t))

\* f"{title}\n{summary}"
Hay(title, summary) == title \o <<"\n">> \o summary

(***************************************************************************)
(* Matchers.                                                               *)
(***************************************************************************)
Lit(t) == [lit |-> t, atEnd |-> FALSE]
LitEnd(t) == [lit |-> t, atEnd |-> TRUE]

\* compile_or_none: blank terms are dropped; no term left means no matcher.
KeepTerms(terms) == SelectSeq(terms, LAMBDA t : t.lit # <<>> /\ Strip(t.lit) # <<>>)

compile_keep_blank(terms) ==
  IF terms = <<>>
    THEN [present |-> FALSE, terms |-> <<>>]
    ELSE [present |-> TRUE, terms |-> terms]

compile_or_none(terms) ==
  IF KeepTerms(terms) = <<>>
    THEN [present |-> FALSE, terms |-> <<>>]
    ELSE [present |-> TRUE, terms |-> KeepTerms(terms)]

\* The literal occurs in the text at position i, letter case ignored.
OccursAt(lit, text, i) ==
  /\ i + Len(lit) - 1 <= Len(text)
  /\ \A k \in 1..Len(lit) : Lower(lit[k]) = Lower(text[i + k - 1])

\* "$" without re.MULTILINE: the end of the text, or just before a final newline.
AtEndOk(text, e) ==
  \/ e = Len(text)
  \/ e = Len(text) - 1 /\ text[Len(text)] = "\n"

TermSearch(term, text) ==
  \E i \in 1..(Len(text) + 1) :
    /\ OccursAt(term.lit, text, i)
    /\ term.atEnd => AtEndOk(text, i + Len(term.lit) - 1)

\* rx.search(text) for the alternation of the terms
Search(rx, text) == \E k \in 1..Len(rx.terms) : TermSearch(rx.terms[k], text)

(***************************************************************************)
(* Scoring and exclusion.                                                  *)
(***************************************************************************)
CategoryScoreNoGuard(cat, title, summary, regs, weights) ==
  IF regs[cat].present /\ Search(regs[cat], Hay(title, summary))
    THEN weights[cat] + weights.title_bonus
    ELSE IF regs[cat].present /\ Search(regs[cat], title)
      THEN weights.title_bonus
      ELSE 0

\* One "if regs[cat] and regs[cat].search(hay)" block of score_item.
CategoryScore(cat, title, summary, regs, weights) ==
  IF regs[cat].present /\ Search(regs[cat], Hay(title, summary))
    THEN weights[cat]
         + (IF Search(regs[cat], title) THEN weights.title_bonus ELSE 0)
    ELSE 0

score_item(title, summary, regs, weights) ==
  CategoryScore("gender", title, summary, regs, weights)
  + CategoryScore("startup", title, summary, regs, weights)
  + CategoryScore("business", title, summary, regs, weights)

is_excluded(title, summary, rx_exclude) ==
  IF ~rx_exclude.present THEN FALSE ELSE Search(rx_exclude, Hay(title, summary))

\* hash_id: SHA-256 of f"{link}|{title}"; the digest is taken to be injective,
\* so the key is the hashed string itself.
hash_id(link, title) == link \o <<"|">> \o title

(***************************************************************************)
(* Timestamps.  A published string is <<"iso", t>> (what isoformat() writes *)
(* for minute t), <<"isoZ", t>> (the same instant written with a "Z"       *)
(* suffix) or anything else, which fromisoformat() rejects.                *)
(***************************************************************************)
isoformat(t) == <<"iso", t>>

\* str(x).replace("Z", "+00:00")
ReplaceZ(p) == IF p[1] = "isoZ" THEN <<"iso", p[2]>> ELSE p

Parses(p) == ReplaceZ(p)[1] = "iso"

ts_key_raise(x) == ReplaceZ(x.published)[2]

\* ts_key: the parsed instant, or the epoch when parsing raises.
ts_key(x) == IF Parses(x.published) THEN ReplaceZ(x.published)[2] ELSE Epoch

\* seq[:n] of Python, n of either sign
PySlice(s, n) ==
  IF n >= 0
    THEN SubSeq(s, 1, IF n < Len(s) THEN n ELSE Len(s))
    ELSE SubSeq(s, 1, IF Len(s) + n > 0 THEN Len(s) + n ELSE 0)

\* x goes behind every element whose key is at least its own: the sort is
\* stable, also with reverse=True.
InsertDesc(x, s) ==
  LET k == Cardinality({i \in 1..Len(s) : ts_key(s[i]) >= ts_key(x)})
  IN SubSeq(s, 1, k) \o <<x>> \o SubSeq(s, k + 1, Len(s))

RECURSIVE SortFrom(_, _)
SortFrom(s, acc) ==
  IF s = <<>> THEN acc ELSE SortFrom(Tail(s), InsertDesc(Head(s), acc))

\* entries.sort(key=ts_key, reverse=True)
SortDesc(s) == SortFrom(s, <<>>)

TruncateThenSort(s, export_limit) == SortDesc(PySlice(s, export_limit))

\* lines 359-360: sort, then truncate
SortAndTruncate(s, export_limit) == PySlice(SortDesc(s), export_limit)

(***************************************************************************)
(* Press pages.  A host is a sequence of labels (<<"www", "d">>); urlparse  *)
(* and the path patterns are evaluated by the libraries, so an anchor      *)
(* carries their verdicts on its URL beside the URL and the link text.     *)
(***************************************************************************)
\* domain_of: the host without a leading "www."
domain_of(host) == IF host # <<>> /\ Head(host) = "www" THEN Tail(host) ELSE host

\* absolute_links: anchors whose href is blank are skipped
absolute_links(anchors) == SelectSeq(anchors, LAMBDA a : ~a.href_blank)

\* lines 167-198: the filters of one link
Survives(a, p, expected_domain) ==
  /\ expected_domain # <<>> =>
       ~(/\ domain_of(a.host) # domain_of(expected_domain)
         /\ domain_of(a.host) # expected_domain)
  /\ ~a.noisy
  /\ ~(~p.allow_pdf /\ a.pdf)
  /\ ~(Len(a.text) < MinTextLen)
  /\ IF p.href_include THEN a.inc_match ELSE a.under_base
  /\ ~(p.href_exclude /\ a.exc_match)

\* lines 166-204: filter and deduplicate by (URL, text), first seen first
RECURSIVE FilterPairs(_, _, _, _)
FilterPairs(pairs, seen, p, expected_domain) ==
  IF pairs = <<>> THEN <<>>
  ELSE LET a == Head(pairs)
           key == <<a.absu, a.text>>
       IN IF ~Survives(a, p, expected_domain) \/ key \in seen
            THEN FilterPairs(Tail(pairs), seen, p, expected_domain)
            ELSE <<a>> \o FilterPairs(Tail(pairs), seen \cup {key}, p, expected_domain)

StampAscending(filtered, now, expected_domain, pageNo) ==
  [i \in 1..Len(filtered) |->
     [title |-> filtered[i].text,
      link |-> filtered[i].absu,
      summary |-> <<>>,
      published |-> isoformat(now + (i - 1)),
      source |-> IF expected_domain # <<>> THEN expected_domain
                 ELSE domain_of(filtered[i].host),
      origin |-> <<"press", pageNo, i - 1>>]]

\* lines 209-219: the item at 0-based position idx is stamped now - idx minutes.
\* origin is a history field (the page and the position the item came from);
\* the program's dict does not hold it.
Stamp(filtered, now, expected_domain, pageNo) ==
  [i \in 1..Len(filtered) |->
     [title |-> filtered[i].text,
      link |-> filtered[i].absu,
      summary |-> <<>>,
      published |-> isoformat(now - (i - 1)),
      source |-> IF expected_domain # <<>> THEN expected_domain
                 ELSE domain_of(filtered[i].host),
      origin |-> <<"press", pageNo, i - 1>>]]

Filtered(p, expected_domain) ==
  PySlice(FilterPairs(absolute_links(p.anchors), {}, p, expected_domain), p.max_items)

(***************************************************************************)
(* Inputs: the configurations, feed entries and press pages of the model.  *)
(***************************************************************************)
DefaultWeights == [gender |-> 2, startup |-> 2, business |-> 1, title_bonus |-> 1]

\* feed metadata as feedparser returns it, and the URL it was fetched from
FeedA == [title |-> "Feed A", link |-> "http://a", url |-> "http://a/rss"]
FeedB == [title |-> "", link |-> "", url |-> "http://b/rss"]

BaseConfig ==
  [keywords_gender |-> <<Lit(<<"w">>)>>,
   keywords_startup |-> <<Lit(<<"s">>)>>,
   keywords_business |-> <<Lit(<<"b">>)>>,
   exclude_keywords |-> <<Lit(<<"x">>)>>,
   weights |-> DefaultWeights,
   min_score |-> 2,
   export_limit |-> 200,
   max_age_days |-> 1,
   curated_mode |-> FALSE,
   feeds |-> <<FeedA, FeedB>>,
   tz |-> 0]

\* tz is the local UTC offset in minutes, which time.mktime applies.
Configs ==
  << BaseConfig,
    [BaseConfig EXCEPT !.curated_mode = TRUE, !.export_limit = 1],
    [BaseConfig EXCEPT !.keywords_gender = <<Lit(<<>>), Lit(<<" ">>)>>,
                       !.exclude_keywords = <<>>,
                       !.export_limit = 2],
    [BaseConfig EXCEPT !.keywords_gender = <<Lit(<<" ">>), LitEnd(<<"w">>)>>,
                       !.keywords_startup = <<>>,
                       !.weights = [gender |-> 1, startup |-> 2,
                                    business |-> 2, title_bonus |-> 2],
                       !.min_score = 3,
                       !.export_limit = -1,
                       !.tz = 60],
    [BaseConfig EXCEPT !.keywords_business = <<Lit(<<>>)>>,
                       !.min_score = 6,
                       !.max_age_days = 0],
    [BaseConfig EXCEPT !.min_score = 0,
                       !.export_limit = 0] >>

Recent == StartMinute - 5
Edge == StartMinute - MinutesPerDay
Old == StartMinute - MinutesPerDay - 1

Entry(title, link, summary, has_ts, ts) ==
  [title |-> title, link |-> link, summary |-> summary,
   has_ts |-> has_ts, ts_struct |-> ts]

tWsb == <<"W", "s", "b", "-", "-", "-">>
tSb == <<"s", "-", "b", "-", "-", "-">>
tNone == <<"-", "-", "-", "-", "-", "-">>
tW == <<"W", "-", "-", "-", "-", "-">>
tEndW == <<"-", "-", "-", "-", "-", "w">>
tWx == <<"w", "x", "-", "-", "-", "-">>
tP1 == <<"p", "-", "-", "-", "-", "1">>
tP2 == <<"p", "-", "-", "-", "-", "2">>
u1 == <<"u", "1">>
u2 == <<"u", "2">>
u3 == <<"u", "3">>

\* raw feed entries: title, link, cleaned summary, published_parsed or
\* updated_parsed (has_ts FALSE when the feed gives neither)
FeedPool ==
  { Entry(tWsb, u1, <<>>, TRUE, Recent),
    Entry(<<" ">> \o tWsb, u1, <<"b">>, FALSE, 0),
    Entry(tSb, u2, <<>>, TRUE, Recent),
    Entry(tNone, u3, <<"w">>, TRUE, Recent),
    Entry(tWsb, u2, <<"x">>, TRUE, Recent),
    Entry(tW, u3, <<>>, TRUE, Old),
    Entry(tW, u3, <<"s">>, TRUE, Edge),
    Entry(<<" ">>, u1, <<"w">>, TRUE, Recent),
    Entry(tW, <<" ">>, <<>>, TRUE, Recent),
    Entry(<<"s", "|", "w", "-", "-", "-">>, <<"u">>, <<>>, TRUE, Recent),
    Entry(<<"w", "-", "-", "-">>, <<"u", "|", "s">>, <<>>, TRUE, Recent + 1),
    Entry(tEndW, u2, <<"s">>, FALSE, 0) }

Anchor(absu, text, host) ==
  [absu |-> absu, text |-> text, host |-> host, href_blank |-> FALSE,
   noisy |-> FALSE, pdf |-> FALSE, inc_match |-> TRUE, under_base |-> TRUE,
   exc_match |-> FALSE]

hostD == <<"www", "d">>
hostE == <<"e">>

Page(anchors, max_items) ==
  [url |-> "http://d/presse", url_host |-> <<"d">>, domain |-> <<"d">>,
   max_items |-> max_items, href_include |-> TRUE, href_exclude |-> FALSE,
   allow_pdf |-> FALSE, fetch_ok |-> TRUE, anchors |-> anchors]

\* configured press pages together with the HTML each one serves
PressPool ==
  << Page(<<Anchor(u1, tWsb, hostD), Anchor(u2, tP1, hostD),
           Anchor(u2, tP1, hostD), Anchor(u3, tP2, hostD)>>, 2),
    [Page(<<Anchor(u3, tP2, hostD), Anchor(u2, tWx, hostD),
           Anchor(u1, <<"w">>, hostD), Anchor(u1, tP1, hostE),
           [Anchor(u1, tP1, hostD) EXCEPT !.pdf = TRUE],
           [Anchor(u1, tP1, hostD) EXCEPT !.noisy = TRUE],
           [Anchor(u1, tP1, hostD) EXCEPT !.inc_match = FALSE],
           [Anchor(u1, tP1, hostD) EXCEPT !.href_blank = TRUE],
           Anchor(u2, tP1, hostD)>>, 3) EXCEPT !.domain = <<"www", "d">>],
    [Page(<<Anchor(u2, tP1, hostE), Anchor(u3, tP2, hostD),
            [Anchor(u1, tP1, hostE) EXCEPT !.pdf = TRUE, !.under_base = FALSE],
            [Anchor(u3, tP1, hostD) EXCEPT !.exc_match = TRUE]>>, 3)
       EXCEPT !.domain = <<>>, !.url_host = <<"www", "d">>, !.href_include = FALSE,
              !.href_exclude = TRUE, !.allow_pdf = TRUE],
    [Page(<<Anchor(u2, tP1, hostD)>>, 3) EXCEPT !.fetch_ok = FALSE],
    [Page(<<Anchor(u2, tP1, hostD)>>, 3) EXCEPT !.url = ""] >>

(***************************************************************************)
(* The run of main().                                                      *)
(***************************************************************************)
VARIABLES
  cfgNo,          \* which configuration load_config() returned
  pc,             \* "feeds", "press" or "done"
  feedIdx,        \* the feed of cfg.feeds being read
  nFeed,          \* feed entries read so far
  pageNo,         \* press pages scraped so far
  pageSel,        \* the press page scraped last (0: none yet)
  clock,          \* the latest reading of datetime.now()
  entries,        \* the accumulated articles
  ids,            \* the identity keys seen
  press_entries,  \* the items of the scraped page still to be handled
  output,         \* what was written to news.json
  last            \* the item handled last and what became of it (the log line)

vars == <<cfgNo, pc, feedIdx, nFeed, pageNo, pageSel, clock, entries, ids, press_entries,
          output, last>>

\* the loaded configuration (line 225)
cfg == Configs[cfgNo]

\* scored: the entry reached score_item; dup: an article with the same link
\* and the same title was accumulated before; count: the items a scrape gave
NoLast ==
  [kind |-> "none", title |-> <<>>, link |-> <<>>, summary |-> <<>>, ts |-> 0,
   verdict |-> "none", scored |-> FALSE, score |-> 0, dup |-> FALSE,
   count |-> 0]

\* lines 231-236: the matchers compiled from each configuration
Compiled ==
  [n \in 1..Len(Configs) |->
     [gender |-> compile_or_none(Configs[n].keywords_gender),
      startup |-> compile_or_none(Configs[n].keywords_startup),
      business |-> compile_or_none(Configs[n].keywords_business),
      exclude |-> compile_or_none(Configs[n].exclude_keywords)]]

\* line 240
Cutoff(n) == StartMinute - Configs[n].max_age_days * MinutesPerDay

cutoff == Cutoff(cfgNo)

\* line 306
FeedSource(f) ==
  IF f.title # "" THEN f.title ELSE IF f.link # "" THEN f.link ELSE f.url

Init ==
  /\ cfgNo \in 1..Len(Configs)
  /\ pc = "feeds"
  /\ feedIdx = 1
  /\ nFeed = 0
  /\ pageNo = 0
  /\ pageSel = 0
  /\ clock = StartMinute
  /\ entries = <<>>
  /\ ids = {}
  /\ press_entries = <<>>
  /\ output = <<>>
  /\ last = NoLast

\* lines 264-269: the structured time through time.mktime, else now
ResolveTs(e, now) == IF e.has_ts THEN e.ts_struct - cfg.tz ELSE now

TooOldFlipped(ts) == ts > cutoff

\* line 272
TooOld(ts) == ts < cutoff

\* line 288
HasGender(n, title, summary) ==
  Compiled[n].gender.present /\ Search(Compiled[n].gender, Hay(title, summary))

GateScoreFirst(n, title, summary) ==
  IF Configs[n].curated_mode THEN "pass"
  ELSE IF score_item(title, summary, Compiled[n], Configs[n].weights)
            < Configs[n].min_score THEN "lowscore"
  ELSE IF is_excluded(title, summary, Compiled[n].exclude) THEN "excluded"
  ELSE IF ~HasGender(n, title, summary) THEN "nogender"
  ELSE "pass"

\* lines 278-298: exclusion, then (unless curated) score and gender
Gate(n, title, summary) ==
  IF is_excluded(title, summary, Compiled[n].exclude) THEN "excluded"
  ELSE IF Configs[n].curated_mode THEN "pass"
  ELSE IF score_item(title, summary, Compiled[n], Configs[n].weights)
            < Configs[n].min_score THEN "lowscore"
  ELSE IF ~HasGender(n, title, summary) THEN "nogender"
  ELSE "pass"

\* lines 255-261 and 278-298 for every entry of the pool under every
\* configuration: the trimmed title and link, the gates' verdict, the score
Handled ==
  [n \in 1..Len(Configs) |->
     [e \in FeedPool |->
        [title |-> Strip(e.title),
         link |-> Strip(e.link),
         gate |-> Gate(n, Strip(e.title), e.summary),
         score |-> score_item(Strip(e.title), e.summary, Compiled[n],
                              Configs[n].weights)]]]

\* lines 255-314: what becomes of one feed entry
FeedVerdict(h, ts) ==
  IF h.title = <<>> \/ h.link = <<>> THEN "missing"
  ELSE IF TooOld(ts) THEN "old"
  ELSE IF h.gate # "pass" THEN h.gate
  ELSE IF hash_id(h.link, h.title) \in ids THEN "dup"
  ELSE "added"

\* an article with this link and this title is among the accumulated ones
Accumulated(link, title) ==
  \E i \in 1..Len(entries) : entries[i].link = link /\ entries[i].title = title

\* One entry of the feed being read (lines 254-314).
FeedEntry(e) ==
  /\ pc = "feeds"
  /\ feedIdx <= Len(cfg.feeds)
  /\ nFeed + pageNo < MaxReads
  /\ LET h == Handled[cfgNo][e]
         ts == ResolveTs(e, clock)
         v == FeedVerdict(h, ts)
         scored == ~cfg.curated_mode /\ v \in {"lowscore", "nogender", "dup", "added"}
     IN /\ last' = [kind |-> "feed", title |-> h.title, link |-> h.link,
                    summary |-> e.summary, ts |-> ts, verdict |-> v,
                    scored |-> scored,
                    score |-> IF scored THEN h.score ELSE 0,
                    dup |-> Accumulated(h.link, h.title),
                    count |-> 0]
        /\ IF v = "added"
             THEN /\ ids' = ids \cup {hash_id(h.link, h.title)}
                  /\ entries' = Append(entries,
                       [title |-> h.title, link |-> h.link, summary |-> e.summary,
                        published |-> isoformat(ts),
                        source |-> FeedSource(cfg.feeds[feedIdx]),
                        origin |-> <<"feed", feedIdx, 0>>])
             ELSE UNCHANGED <<ids, entries>>
  /\ nFeed' = nFeed + 1
  /\ UNCHANGED <<cfgNo, pc, feedIdx, pageNo, pageSel, clock, press_entries, output>>

\* The feed is exhausted, or feedparser.parse raised (line 252): the next
\* feed is read; after the last one the press pages follow.
NextFeed ==
  /\ pc = "feeds"
  /\ feedIdx <= Len(cfg.feeds)
  /\ feedIdx' = feedIdx + 1
  /\ pc' = IF feedIdx = Len(cfg.feeds) THEN "press" ELSE "feeds"
  /\ last' = NoLast
  /\ UNCHANGED <<cfgNo, nFeed, pageNo, pageSel, clock, entries, ids, press_entries,
                 output>>

\* line 326
ExpectedDomain(p) == IF p.domain # <<>> THEN p.domain ELSE domain_of(p.url_host)

\* lines 155-207 for every page of the pool
Scraped == [k \in 1..Len(PressPool) |-> Filtered(PressPool[k], ExpectedDomain(PressPool[k]))]

\* scrape_press_page; a failed fetch returns the empty list
scrape_press_page(k, now, pageNo_) ==
  IF ~PressPool[k].fetch_ok THEN <<>>
  ELSE Stamp(Scraped[k], now, ExpectedDomain(PressPool[k]), pageNo_)

\* One configured press page is scraped (lines 322-335); a page without a
\* URL is passed over.  The clock moves on while the page is fetched.
ScrapePage(k) ==
  /\ pc = "press"
  /\ press_entries = <<>>
  /\ nFeed + pageNo < MaxReads
  /\ pageNo' = pageNo + 1
  /\ pageSel' = k
  /\ IF PressPool[k].url = ""
       THEN /\ last' = NoLast
            /\ UNCHANGED <<clock, press_entries>>
       ELSE \E d \in 0..MaxDrift :
              /\ clock + d <= StartMinute + MaxDrift
              /\ clock' = clock + d
              /\ press_entries' = scrape_press_page(k, clock + d, pageNo + 1)
              /\ last' = [NoLast EXCEPT !.kind = "scrape",
                                        !.count = Len(press_entries')]
  /\ UNCHANGED <<cfgNo, pc, feedIdx, nFeed, entries, ids, output>>

\* lines 339-347: what becomes of one press item
PressVerdict(item) ==
  IF is_excluded(item.title, item.summary, Compiled[cfgNo].exclude) THEN "excluded"
  ELSE IF hash_id(item.link, item.title) \in ids THEN "dup"
  ELSE "added"

\* One item of the scraped page (lines 338-347).
PressItem ==
  /\ pc = "press"
  /\ press_entries # <<>>
  /\ LET item == Head(press_entries)
         v == PressVerdict(item)
     IN /\ last' = [kind |-> "press", title |-> item.title, link |-> item.link,
                    summary |-> item.summary, ts |-> ts_key(item), verdict |-> v,
                    scored |-> FALSE, score |-> 0,
                    dup |-> Accumulated(item.link, item.title),
                    count |-> 0]
        /\ IF v = "added"
             THEN /\ ids' = ids \cup {hash_id(item.link, item.title)}
                  /\ entries' = Append(entries, item)
             ELSE UNCHANGED <<ids, entries>>
  /\ press_entries' = Tail(press_entries)
  /\ UNCHANGED <<cfgNo, pc, feedIdx, nFeed, pageNo, pageSel, clock, output>>

\* lines 352-365: sort newest first, truncate, write
WriteOutput ==
  /\ pc = "press"
  /\ press_entries = <<>>
  /\ output' = SortAndTruncate(entries, cfg.export_limit)
  /\ pc' = "done"
  /\ last' = NoLast
  /\ UNCHANGED <<cfgNo, feedIdx, nFeed, pageNo, pageSel, clock, entries, ids,
                 press_entries>>

Next ==
  \/ \E e \in FeedPool : FeedEntry(e)
  \/ NextFeed
  \/ \E k \in 1..Len(PressPool) : ScrapePage(k)
  \/ PressItem
  \/ WriteOutput

Spec == Init /\ [][Next]_vars

(***************************************************************************)
(* The sort and the truncation as a function of the accumulated list: any  *)
(* list of articles with distinct identities, whatever their published     *)
(* strings.                                                                *)
(***************************************************************************)
MaxSortLen == 3

Article(title, link, published) ==
  [title |-> title, link |-> link, summary |-> <<>>, published |-> published,
   source |-> "Feed A", origin |-> <<"feed", 1, 0>>]

ArticlePool ==
  { Article(tWsb, u1, <<"iso", Recent>>),
    Article(tW, u2, <<"iso", Recent>>),
    Article(tP1, u2, <<"isoZ", StartMinute>>),
    Article(tP2, u3, <<"not a date", StartMinute + 1>>),
    Article(tW, u3, <<"iso", Edge>>) }

Lists ==
  UNION { { s \in [1..n -> ArticlePool] : \A i, j \in 1..n : i # j => s[i] # s[j] } :
          n \in 0..MaxSortLen }

InitSort ==
  /\ cfgNo \in 1..Len(Configs)
  /\ pc = "press"
  /\ feedIdx = Len(Configs[cfgNo].feeds) + 1
  /\ nFeed = 0
  /\ pageNo = 0
  /\ pageSel = 0
  /\ clock = StartMinute
  /\ entries \in Lists
  /\ ids = {hash_id(entries[i].link, entries[i].title) : i \in 1..Len(entries)}
  /\ press_entries = <<>>
  /\ output = <<>>
  /\ last = NoLast

NextSort == WriteOutput

SpecSort == InitSort /\ [][NextSort]_vars

(***************************************************************************)
(* Vocabulary of the properties, read off the configuration itself.        *)
(***************************************************************************)
Cats == {"gender", "startup", "business"}

Min(a, b) == IF a < b THEN a ELSE b
Max(a, b) == IF a > b THEN a ELSE b

Terms(c) ==
  CASE c = "gender" -> cfg.keywords_gender
    [] c = "startup" -> cfg.keywords_startup
    [] c = "business" -> cfg.keywords_business
    [] OTHER -> cfg.exclude_keywords

\* no term is configured for the category: the list is empty or all blank
AllBlank(c) ==
  \A k \in 1..Len(Terms(c)) : \A i \in 1..Len(Terms(c)[k].lit) : IsSpace(Terms(c)[k].lit[i])

\* some configured, non-blank term of the category occurs in the text
Matches(c, text) ==
  \E k \in 1..Len(Terms(c)) :
    /\ \E i \in 1..Len(Terms(c)[k].lit) : ~IsSpace(Terms(c)[k].lit[i])
    /\ TermSearch(Terms(c)[k], text)

\* the feed entry handled last had a title and a link and passed the cutoff
LastGated ==
  /\ last.kind = "feed"
  /\ last.title # <<>>
  /\ last.link # <<>>
  /\ last.ts >= cutoff

LastAdmitted == last.verdict \in {"added", "dup"}

Articles(list) == {list[i] : i \in 1..Len(list)}

\* the instant a published string is ordered by: parsed, or the epoch
Valid(e) == e.published[1] \in {"iso", "isoZ"}
Instant(e) == IF Valid(e) THEN e.published[2] ELSE 0

Pos(list, e) == CHOOSE i \in 1..Len(list) : list[i] = e

\* C1: in non-curated mode a feed entry with a title and a link that passes the
\* cutoff and whose (link, title) was not accumulated before is accumulated
\* iff the exclude matcher does not match, the gender matcher matches and the
\* score reaches min_score.
C1_InclusionIff ==
  (LastGated /\ ~cfg.curated_mode /\ ~last.dup) =>
    (last.verdict = "added" <=>
       /\ ~Matches("exclude", Hay(last.title, last.summary))
       /\ Matches("gender", Hay(last.title, last.summary))
       /\ score_item(last.title, last.summary, Compiled[cfgNo], cfg.weights)
            >= cfg.min_score)

\* The same rule with "not dropped by the identity check" in the place of
\* "(link, title) not accumulated before".
InclusionUpToIdentity ==
  (LastGated /\ ~cfg.curated_mode) =>
    (LastAdmitted <=>
       /\ ~Matches("exclude", Hay(last.title, last.summary))
       /\ Matches("gender", Hay(last.title, last.summary))
       /\ score_item(last.title, last.summary, Compiled[cfgNo], cfg.weights)
            >= cfg.min_score)

\* C2: no item of the output, from a feed or from a press page, has a
\* timestamp strictly older than now - max_age_days.
C2_AgeGateAllItems ==
  \A i \in 1..Len(output) : Instant(output[i]) >= cutoff

\* C2 (amended): no article that came from a feed, accumulated or written, is
\* strictly older than the cutoff, curated mode or not, and a feed entry older
\* than the cutoff is always skipped; press items are not age-gated.
C2_FeedAgeGate ==
  /\ \A i \in 1..Len(entries) :
       entries[i].origin[1] = "feed" => Instant(entries[i]) >= cutoff
  /\ \A i \in 1..Len(output) :
       output[i].origin[1] = "feed" => Instant(output[i]) >= cutoff
  /\ (last.kind = "feed" /\ last.ts < cutoff) => last.verdict \in {"missing", "old"}

\* an entry older than the cutoff was skipped in curated mode
C2_Witness ==
  /\ cfg.curated_mode
  /\ last.kind = "feed"
  /\ last.ts < cutoff
  /\ last.verdict = "old"

\* C3: the accumulated list never holds two articles with the same (link,
\* title), and an item that passes the other gates is, from then on,
\* represented in the list by the first copy met (itself, if it is the first).
C3_FirstCopyKept ==
  /\ \A i, j \in 1..Len(entries) :
       i < j => <<entries[i].link, entries[i].title>> # <<entries[j].link, entries[j].title>>
  /\ LastAdmitted => Accumulated(last.link, last.title)

\* C4: for any two written articles A and B with valid timestamps, A stands
\* before B iff A.published > B.published.
C4_StrictOrderIff ==
  pc = "done" =>
    \A i, j \in 1..Len(output) :
      (i # j /\ Valid(output[i]) /\ Valid(output[j])) =>
        (i < j <=> Instant(output[i]) > Instant(output[j]))

\* C4 (amended): the written list is in descending order of published, an
\* unparseable published counting as the epoch: an article with a later
\* instant stands before one with an earlier instant, articles with equal
\* instants keep their accumulation order, and no article is removed by the
\* sort (unparseable ones included).
C4_DescendingStable ==
  pc = "done" =>
    /\ \A i, j \in 1..Len(output) :
         i < j =>
           /\ Instant(output[i]) >= Instant(output[j])
           /\ Instant(output[i]) = Instant(output[j]) =>
                Pos(entries, output[i]) < Pos(entries, output[j])
    /\ Articles(output) \subseteq Articles(entries)
    /\ cfg.export_limit >= Len(entries) => Articles(output) = Articles(entries)

\* a written list with a tie of two valid timestamps and, behind them, an
\* article whose published does not parse
C4_Witness ==
  /\ pc = "done"
  /\ \E i, j, k \in 1..Len(output) :
       /\ i < j /\ j < k
       /\ Valid(output[i]) /\ Valid(output[j]) /\ ~Valid(output[k])
       /\ Instant(output[i]) = Instant(output[j])

\* C5: for every integer export_limit the number of articles written is
\* min(accumulated, export_limit), the first export_limit of the sorted order.
C5_LengthIsMin ==
  pc = "done" =>
    /\ Len(output) = Min(Len(entries), cfg.export_limit)
    /\ \A i \in 1..Len(output) : output[i] = SortDesc(entries)[i]

\* C5 (amended): for export_limit >= 0 the number written is min(accumulated,
\* export_limit); for export_limit < 0 it is max(0, accumulated +
\* export_limit); in both cases the written list is a prefix of the sorted
\* order, so every article cut is at most as recent as every article kept.
C5_Truncation ==
  pc = "done" =>
    /\ Len(output) = IF cfg.export_limit >= 0
                       THEN Min(Len(entries), cfg.export_limit)
                       ELSE Max(0, Len(entries) + cfg.export_limit)
    /\ Articles(output) \subseteq Articles(entries)
    /\ Cardinality(Articles(output)) = Len(output)
    /\ \A e \in Articles(entries) \ Articles(output) :
         \A o \in Articles(output) : Instant(e) <= Instant(o)

\* more articles were accumulated than a positive export_limit lets through
C5_Witness ==
  /\ pc = "done"
  /\ cfg.export_limit > 0
  /\ Len(entries) > cfg.export_limit
  /\ Len(output) = cfg.export_limit

\* C6: an item whose title and summary match the exclude matcher is never
\* accumulated or written; a feed entry that matches is dropped as excluded
\* whatever its score and in curated mode too, a press item that matches is
\* dropped as excluded; without an exclude matcher nothing is excluded.
C6_ExcludedNeverEmitted ==
  /\ \A i \in 1..Len(entries) :
       ~Matches("exclude", Hay(entries[i].title, entries[i].summary))
  /\ \A i \in 1..Len(output) :
       ~Matches("exclude", Hay(output[i].title, output[i].summary))
  /\ (LastGated /\ Matches("exclude", Hay(last.title, last.summary)))
       => last.verdict = "excluded"
  /\ (last.kind = "press" /\ Matches("exclude", Hay(last.title, last.summary)))
       => last.verdict = "excluded"
  /\ AllBlank("exclude") => last.verdict # "excluded"

\* a feed entry that matches gender and would reach min_score is excluded
C6_Witness ==
  /\ LastGated
  /\ ~cfg.curated_mode
  /\ last.verdict = "excluded"
  /\ Matches("gender", Hay(last.title, last.summary))
  /\ score_item(last.title, last.summary, Compiled[cfgNo], cfg.weights)
       >= cfg.min_score

\* the categories whose matcher matches title, newline, summary
Hit(title, summary) == {c \in Cats : Matches(c, Hay(title, summary))}

WeightOf(c, hit) == IF c \in hit THEN cfg.weights[c] ELSE 0

\* C7: the score is the sum of the weights of the categories that match the
\* combined text, plus title_bonus once for each of those categories that
\* also matches the title alone.
C7_ScoreFormula ==
  last.scored =>
    last.score =
      WeightOf("gender", Hit(last.title, last.summary))
      + WeightOf("startup", Hit(last.title, last.summary))
      + WeightOf("business", Hit(last.title, last.summary))
      + cfg.weights.title_bonus
          * Cardinality({c \in Hit(last.title, last.summary) : Matches(c, last.title)})

\* all three categories match in the title: three title bonuses
C7_Witness ==
  /\ last.scored
  /\ \A c \in Cats : Matches(c, last.title)
  /\ last.score = cfg.weights.gender + cfg.weights.startup + cfg.weights.business
                    + 3 * cfg.weights.title_bonus

\* the score of the other categories
ScoreWithout(c) ==
  IF last.scored
    THEN LET ScoreOf(d) ==
               IF d = c THEN 0
               ELSE CategoryScore(d, last.title, last.summary, Compiled[cfgNo],
                                  cfg.weights)
         IN ScoreOf("gender") + ScoreOf("startup") + ScoreOf("business")
    ELSE 0

\* C8: a category without terms never causes an article to be accepted or
\* rejected: a scored feed entry is admitted iff it is not excluded, reaches
\* min_score and matches gender when gender terms are configured.
C8_AbsentNeverGates ==
  (LastGated /\ ~cfg.curated_mode) =>
    (LastAdmitted <=>
       /\ ~Matches("exclude", Hay(last.title, last.summary))
       /\ ~AllBlank("gender") => Matches("gender", Hay(last.title, last.summary))
       /\ score_item(last.title, last.summary, Compiled[cfgNo], cfg.weights)
            >= cfg.min_score)

\* C8 (amended): a category without terms has no matcher and adds 0 to every
\* score; without exclude terms nothing is excluded; without gender terms the
\* gender gate fails, so every feed entry is rejected in non-curated mode;
\* with gender terms, admission is decided by exclusion, the gender match and
\* the score of the configured categories alone.
C8_AbsentCategory ==
  /\ \A c \in Cats \cup {"exclude"} : AllBlank(c) => ~Compiled[cfgNo][c].present
  /\ \A c \in Cats : (last.scored /\ AllBlank(c)) => last.score = ScoreWithout(c)
  /\ AllBlank("exclude") => last.verdict # "excluded"
  /\ (last.kind = "feed" /\ ~cfg.curated_mode /\ AllBlank("gender")) => ~LastAdmitted
  /\ (LastGated /\ ~cfg.curated_mode /\ ~AllBlank("gender")) =>
       (LastAdmitted <=>
          /\ ~Matches("exclude", Hay(last.title, last.summary))
          /\ Matches("gender", Hay(last.title, last.summary))
          /\ last.score >= cfg.min_score)

\* without gender terms, an entry whose score reaches min_score is rejected
\* for lacking the gender match
C8_Witness ==
  /\ AllBlank("gender")
  /\ last.kind = "feed"
  /\ last.scored
  /\ last.score >= cfg.min_score
  /\ last.verdict = "nogender"

\* the anchors of the page scraped last that survive the filters, first
\* occurrences of their (URL, text) only
PageOf == PressPool[pageSel]

Passing(k, i) ==
  /\ ~PressPool[k].anchors[i].href_blank
  /\ Survives(PressPool[k].anchors[i], PressPool[k], ExpectedDomain(PressPool[k]))

\* for every page of the pool, the positions of those anchors
FirstSeenOf ==
  [k \in 1..Len(PressPool) |->
     {i \in 1..Len(PressPool[k].anchors) :
        /\ Passing(k, i)
        /\ \A j \in 1..(i - 1) :
             Passing(k, j) =>
               <<PressPool[k].anchors[j].absu, PressPool[k].anchors[j].text>>
                 # <<PressPool[k].anchors[i].absu, PressPool[k].anchors[i].text>>}]

FirstSeen == FirstSeenOf[pageSel]

Rank(i) == Cardinality({j \in FirstSeen : j <= i})

\* C9: a scraped page yields its surviving links without (URL, text)
\* repetitions, in page order, at most max_items of them, the one at 0-based
\* position i stamped now - i minutes; in the written list the items of one
\* page stand in the order of the page, whatever stands between them.
C9_PressOrder ==
  /\ (last.kind = "scrape" /\ PageOf.fetch_ok) =>
       /\ Len(press_entries) = Min(Cardinality(FirstSeen), PageOf.max_items)
       /\ \A i \in FirstSeen :
            Rank(i) <= Len(press_entries) =>
              /\ press_entries[Rank(i)].link = PageOf.anchors[i].absu
              /\ press_entries[Rank(i)].title = PageOf.anchors[i].text
              /\ press_entries[Rank(i)].published = <<"iso", clock - (Rank(i) - 1)>>
  /\ pc = "done" =>
       \A i, j \in 1..Len(output) :
         (/\ i < j
          /\ output[i].origin[1] = "press"
          /\ output[j].origin[1] = "press"
          /\ output[i].origin[2] = output[j].origin[2])
           => output[i].origin[3] < output[j].origin[3]

\* two items of one press page are written with an item of another origin
\* between them
C9_Witness ==
  /\ pc = "done"
  /\ \E i, j, k \in 1..Len(output) :
       /\ i < j /\ j < k
       /\ output[i].origin[1] = "press"
       /\ output[k].origin[1] = "press"
       /\ output[i].origin[2] = output[k].origin[2]
       /\ <<output[j].origin[1], output[j].origin[2]>>
            # <<output[i].origin[1], output[i].origin[2]>>

\* C10: an item is dropped by the identity check only if an article with
\* exactly its link and exactly its title was accumulated before, and the
\* identity set holds exactly the keys of the accumulated articles.
C10_KeyDistinguishesPairs ==
  /\ last.verdict = "dup" => last.dup
  /\ ids = {hash_id(entries[i].link, entries[i].title) : i \in 1..Len(entries)}

\* The identity set holds the keys of the accumulated articles and no other.
IdsAreAccumulatedKeys ==
  ids = {hash_id(entries[i].link, entries[i].title) : i \in 1..Len(entries)}

====
